---- MODULE Spec2Model ----
(***************************************************************************)
(* Claude Usage Tray: the poll / fetch / display cycle of the tray         *)
(* controller (main.c), the usage fetcher (api.c), the HTTP client         *)
(* (http.c), the credentials reader (config.c) and the popup (popup.c).    *)
(*                                                                         *)
(* C strings are TLA+ strings, doubles are integers, a NULL pointer is a   *)
(* record tagged as such.  Everything the program reads from outside (the  *)
(* credentials file, the network, the clock) is chosen by the environment. *)
(***************************************************************************)
EXTENDS Integers, Sequences, FiniteSets, TLC

VARIABLES
    pc,         \* position of wWinMain: "start", "loop" (message loop), "exit"
    exit_code,  \* value returned by wWinMain (-1 while running)
    cred,       \* the credentials file on disk (owned by an external tool)
    g_app,      \* static AppState g_app
    timer,      \* the IDT_POLL_TIMER of the hidden window: armed or not, period
    cycles,     \* outcome of every completed fetch cycle, oldest first
    balloons,   \* number of calls of show_error_balloon so far
    last,       \* what the last fetch cycle did: token read, request sent, alert
    prev,       \* the same for the fetch cycle before the last one
    fn_in,      \* input of the function under test (function specifications)
    fn_out,     \* its result
    stack,      \* what the UI thread is inside of, outermost first: the message
                \* loop, the modal loop of the context menu, a do_fetch
    queue,      \* messages posted to the hidden window, oldest first
    popup,      \* popup.c: g_popup (shown) and g_popup_data (data)
    elapsed     \* half poll intervals since the timer was armed or last fired

uivars == <<stack, queue, popup, elapsed>>

vars == <<pc, exit_code, cred, g_app, timer, cycles, balloons, last, prev,
          fn_in, fn_out, stack, queue, popup, elapsed>>

(***************************************************************************)
(* Bounds of the model.                                                    *)
(***************************************************************************)
MaxCycles == 4      \* fetch cycles per run
MaxFetches == 2     \* fetch cycles after the first, message by message
MaxQueue == 2       \* messages the user has waiting in the queue

(***************************************************************************)
(* Program constants.                                                      *)
(***************************************************************************)
MAX_TOKEN_LEN == 512
RESETS_LEN == 64
SUB_TYPE_LEN == 32
BUF_CAP_INIT == 4096
ERROR_NOT_ENOUGH_MEMORY == 8
ERROR_WINHTTP_CANNOT_CONNECT == 12029
ERROR_WINHTTP_TIMEOUT == 12002
ERROR_WINHTTP_NAME_NOT_RESOLVED == 12007
MAX_CRED_FILE == 8192
DEFAULT_POLL_SEC == 60

Min(a, b) == IF a < b THEN a ELSE b

(***************************************************************************)
(* cJSON values.  A value is a record [t, v]; a C NULL pointer (item not   *)
(* found, parse failure) is JNULLPTR, the JSON literal null is JNull.      *)
(***************************************************************************)
JNULLPTR == [t |-> "NULLPTR", v |-> 0]
JNull == [t |-> "null", v |-> 0]
JNum(n) == [t |-> "num", v |-> n]
JStr(s) == [t |-> "str", v |-> s]
JBool(b) == [t |-> "bool", v |-> b]
JObj(f) == [t |-> "obj", v |-> f]

IsNULL(item) == item.t = "NULLPTR"

cJSON_IsNull(item) == item.t = "null"
cJSON_IsNumber(item) == item.t = "num"
cJSON_IsString(item) == item.t = "str"

\* NULL when the object is NULL, is no object, or has no such member.
cJSON_GetObjectItem(object, name) ==
    IF object.t = "obj" /\ name \in DOMAIN object.v THEN object.v[name] ELSE JNULLPTR

\* strncpy(dst, src, n) into a zeroed buffer: at most n characters are kept.
strncpy(src, n) == IF Len(src) <= n THEN src ELSE SubSeq(src, 1, n)

(***************************************************************************)
(* The bodies the server can send.  A document has a text that cJSON       *)
(* either parses (json) into root or rejects, and arrives in chunks of the *)
(* given sizes (WinHttpQueryDataAvailable's answers).                      *)
(***************************************************************************)
TS_5H == "2026-02-16T13:00:01+00:00"
TS_7D == "2026-02-19T21:00:00+00:00"
TS_BAD == "soon"

Window(u, r) == JObj([k \in {"utilization", "resets_at"} |->
                        IF k = "utilization" THEN u ELSE r])
Extra(e, l, u) == JObj([k \in {"is_enabled", "monthly_limit", "used_credits"} |->
                        IF k = "is_enabled" THEN e
                        ELSE IF k = "monthly_limit" THEN l ELSE u])

DocNames == {"empty", "html", "full", "high", "nulls", "odd", "scalar"}

Doc(name) ==
    CASE name = "empty" -> [json |-> FALSE, root |-> JNULLPTR, chunks |-> <<>>]
      [] name = "html" -> [json |-> FALSE, root |-> JNULLPTR, chunks |-> <<300>>]
      [] name = "full" ->
           [json |-> TRUE, chunks |-> <<260>>,
            root |-> JObj([k \in {"five_hour", "seven_day", "seven_day_opus",
                                  "seven_day_sonnet", "extra_usage"} |->
                CASE k = "five_hour" -> Window(JNum(30), JStr(TS_5H))
                  [] k = "seven_day" -> Window(JNum(6), JStr(TS_7D))
                  [] k = "extra_usage" -> Extra(JBool(TRUE), JNum(4250), JNum(0))
                  [] OTHER -> JNull])]
      [] name = "high" ->
           [json |-> TRUE, chunks |-> <<4096, 200>>,
            root |-> JObj([k \in {"five_hour", "seven_day", "seven_day_opus",
                                  "extra_usage"} |->
                CASE k = "five_hour" -> Window(JNum(85), JStr(TS_BAD))
                  [] k = "seven_day" -> Window(JNum(150), JStr(TS_7D))
                  [] k = "seven_day_opus" -> Window(JNum(40), JNull)
                  [] OTHER -> Extra(JBool(FALSE), JNum(1000), JNum(0))])]
      [] name = "nulls" ->
           [json |-> TRUE, chunks |-> <<40>>,
            root |-> JObj([k \in {"five_hour", "seven_day_opus", "extra_usage"} |->
                             JNull])]
      [] name = "odd" ->
           [json |-> TRUE, chunks |-> <<90>>,
            root |-> JObj([k \in {"five_hour", "seven_day", "seven_day_sonnet"} |->
                CASE k = "five_hour" -> Window(JStr("30"), JNum(5))
                  [] k = "seven_day" -> JObj([j \in {"utilization"} |-> JNum(-5)])
                  [] OTHER -> Window(JNum(97), JStr(TS_7D))])]
      [] name = "scalar" -> [json |-> TRUE, root |-> JNum(5), chunks |-> <<1>>]

RECURSIVE SumSeq(_)
SumSeq(s) == IF s = <<>> THEN 0 ELSE Head(s) + SumSeq(Tail(s))

\* A response body as held in memory: NULL, or the first len bytes of a document.
NullBody == [null |-> TRUE, doc |-> "empty", len |-> 0]
BodyOf(name, n) == [null |-> FALSE, doc |-> name, len |-> n]

\* cJSON_Parse on the NUL-terminated buffer: the root, or NULL when the text is
\* no JSON (an empty text and a document cut short are none).
cJSON_Parse(body) ==
    IF Doc(body.doc).json /\ body.len = SumSeq(Doc(body.doc).chunks)
    THEN Doc(body.doc).root
    ELSE JNULLPTR

(***************************************************************************)
(* http.c                                                                  *)
(*                                                                         *)
(* What the network does to one request is a record net:                   *)
(*   fail      the WinHTTP call that fails before the body is read         *)
(*             ("connect", "open", "send", "receive", "malloc") or "none"  *)
(*   err       GetLastError() after that failure                           *)
(*   status    the number WinHttpQueryHeaders stores (0 when it fails)     *)
(*   doc       the document the server sends as the body                   *)
(*   body_fail what goes wrong in the read loop ("query", "read",          *)
(*             "realloc") or "none", and at the chunk number at            *)
(***************************************************************************)
HttpResponse(status, body, len, ec) ==
    [status_code |-> status, body |-> body, body_len |-> len, error_code |-> ec]

\* The for (;;) loop of http_get from chunk i on, with buf_len bytes read into
\* a buffer of buf_cap bytes.  The result is the buffer: NULL or its length.
RECURSIVE GrowCap(_, _)
GrowCap(cap, need) == IF need > cap THEN GrowCap(cap * 2, need) ELSE cap

RECURSIVE ReadLoop(_, _, _, _)
ReadLoop(net, i, buf_len, buf_cap) ==
    LET chunks == Doc(net.doc).chunks
        here(kind) == net.body_fail = kind /\ net.at = i
    IN  IF here("query") THEN [null |-> FALSE, len |-> buf_len]
        ELSE IF i > Len(chunks) THEN [null |-> FALSE, len |-> buf_len]
        ELSE LET available == chunks[i]
                 grow == buf_len + available + 1 > buf_cap
             IN  IF available = 0 THEN [null |-> FALSE, len |-> buf_len]
                 ELSE IF grow /\ here("realloc") THEN [null |-> TRUE, len |-> buf_len]
                 ELSE IF here("read") THEN [null |-> FALSE, len |-> buf_len]
                 ELSE ReadLoop(net, i + 1, buf_len + available,
                               GrowCap(buf_cap, buf_len + available + 1))

\* Variant: a failure in the read loop is reported as a transport error, and
\* the bytes read so far are still handed back.
http_get_partial_body(net) ==
    IF net.fail \in {"connect", "open", "send", "receive"}
    THEN HttpResponse(0, NullBody, 0, net.err)
    ELSE IF net.fail = "malloc"
    THEN HttpResponse(net.status, NullBody, 0, ERROR_NOT_ENOUGH_MEMORY)
    ELSE LET buf == ReadLoop(net, 1, 0, BUF_CAP_INIT)
             ec == IF net.body_fail \in {"query", "read"} THEN 12030 ELSE 0
         IN  IF buf.null
             THEN HttpResponse(net.status, NullBody, 0, 0)
             ELSE HttpResponse(net.status, BodyOf(net.doc, buf.len), buf.len, ec)

http_get(net) ==
    IF net.fail \in {"connect", "open", "send", "receive"}
    THEN HttpResponse(0, NullBody, 0, net.err)
    ELSE IF net.fail = "malloc"
    THEN HttpResponse(net.status, NullBody, 0, ERROR_NOT_ENOUGH_MEMORY)
    ELSE LET buf == ReadLoop(net, 1, 0, BUF_CAP_INIT)
         IN  IF buf.null
             THEN HttpResponse(net.status, NullBody, 0, 0)
             ELSE HttpResponse(net.status, BodyOf(net.doc, buf.len), buf.len, 0)

(***************************************************************************)
(* api.c                                                                   *)
(***************************************************************************)
\* memset(out, 0, sizeof(*out))
ZeroUsage ==
    [five_hour_util |-> 0, five_hour_resets |-> "",
     seven_day_util |-> 0, seven_day_resets |-> "",
     opus_util |-> 0, sonnet_util |-> 0,
     extra_enabled |-> FALSE, extra_limit |-> 0, extra_used |-> 0,
     subscription_type |-> "", valid |-> FALSE, error |-> ""]

\* Variant: the sentinel is stored only when the member is missing; a null
\* member leaves the zeroed value.
parse_usage_field_null_zero(root, name) ==
    LET field == cJSON_GetObjectItem(root, name)
        u == cJSON_GetObjectItem(field, "utilization")
        r == cJSON_GetObjectItem(field, "resets_at")
    IN  IF IsNULL(field) THEN [util |-> -1, resets |-> ""]
        ELSE IF cJSON_IsNull(field) THEN [util |-> 0, resets |-> ""]
        ELSE [util |-> IF ~IsNULL(u) /\ cJSON_IsNumber(u) THEN u.v ELSE -1,
              resets |-> IF ~IsNULL(r) /\ cJSON_IsString(r)
                         THEN strncpy(r.v, RESETS_LEN - 1) ELSE ""]

parse_usage_field(root, name) ==
    LET field == cJSON_GetObjectItem(root, name)
        u == cJSON_GetObjectItem(field, "utilization")
        r == cJSON_GetObjectItem(field, "resets_at")
    IN  IF IsNULL(field) \/ cJSON_IsNull(field)
        THEN [util |-> -1, resets |-> ""]
        ELSE [util |-> IF ~IsNULL(u) /\ cJSON_IsNumber(u) THEN u.v ELSE -1,
              resets |-> IF ~IsNULL(r) /\ cJSON_IsString(r)
                         THEN strncpy(r.v, RESETS_LEN - 1) ELSE ""]

\* The "utilization" of an optional per-model window (seven_day_opus, ..._sonnet).
model_util(root, name) ==
    LET w == cJSON_GetObjectItem(root, name)
        u == cJSON_GetObjectItem(w, "utilization")
    IN  IF ~IsNULL(w) /\ ~cJSON_IsNull(w) /\ ~IsNULL(u) /\ cJSON_IsNumber(u)
        THEN u.v ELSE -1

NumberOr(item, dflt) == IF ~IsNULL(item) /\ cJSON_IsNumber(item) THEN item.v ELSE dflt

\* The state of *out after memset and the four sentinel assignments.
ClearedUsage ==
    [ZeroUsage EXCEPT !.opus_util = -1, !.sonnet_util = -1,
                      !.five_hour_util = -1, !.seven_day_util = -1]

Failed(out, msg) == [out EXCEPT !.error = msg]

\* Variant: the timeout and the DNS message are swapped.
network_error_text_swapped(ec) ==
    IF ec = ERROR_WINHTTP_CANNOT_CONNECT THEN "Cannot connect to api.anthropic.com"
    ELSE IF ec = ERROR_WINHTTP_TIMEOUT THEN "DNS resolution failed"
    ELSE IF ec = ERROR_WINHTTP_NAME_NOT_RESOLVED THEN "Request timed out"
    ELSE "Network error (code " \o ToString(ec) \o ")"

network_error_text(ec) ==
    IF ec = ERROR_WINHTTP_CANNOT_CONNECT THEN "Cannot connect to api.anthropic.com"
    ELSE IF ec = ERROR_WINHTTP_TIMEOUT THEN "Request timed out"
    ELSE IF ec = ERROR_WINHTTP_NAME_NOT_RESOLVED THEN "DNS resolution failed"
    ELSE "Network error (code " \o ToString(ec) \o ")"

\* Variant: the extraction stops at the first window that is missing or null.
parse_usage_early_return(out, root) ==
    LET five == cJSON_GetObjectItem(root, "five_hour")
        seven == cJSON_GetObjectItem(root, "seven_day")
        extra == cJSON_GetObjectItem(root, "extra_usage")
        has_extra == ~IsNULL(extra) /\ ~cJSON_IsNull(extra)
        one == [out EXCEPT !.five_hour_util = parse_usage_field(root, "five_hour").util,
                           !.five_hour_resets = parse_usage_field(root, "five_hour").resets,
                           !.valid = TRUE]
        two == [one EXCEPT !.seven_day_util = parse_usage_field(root, "seven_day").util,
                           !.seven_day_resets = parse_usage_field(root, "seven_day").resets]
    IN  IF IsNULL(five) \/ cJSON_IsNull(five) THEN [out EXCEPT !.valid = TRUE]
        ELSE IF IsNULL(seven) \/ cJSON_IsNull(seven) THEN one
        ELSE [two EXCEPT
                !.opus_util = model_util(root, "seven_day_opus"),
                !.sonnet_util = model_util(root, "seven_day_sonnet"),
                !.extra_enabled = has_extra,
                !.extra_limit = IF has_extra
                                THEN NumberOr(cJSON_GetObjectItem(extra, "monthly_limit"), @)
                                ELSE @,
                !.extra_used = IF has_extra
                               THEN NumberOr(cJSON_GetObjectItem(extra, "used_credits"), @)
                               ELSE @]

\* The part of api_fetch_usage after a successful cJSON_Parse.
parse_usage(out, root) ==
    LET five == parse_usage_field(root, "five_hour")
        seven == parse_usage_field(root, "seven_day")
        extra == cJSON_GetObjectItem(root, "extra_usage")
        has_extra == ~IsNULL(extra) /\ ~cJSON_IsNull(extra)
    IN  [out EXCEPT
            !.five_hour_util = five.util, !.five_hour_resets = five.resets,
            !.seven_day_util = seven.util, !.seven_day_resets = seven.resets,
            !.opus_util = model_util(root, "seven_day_opus"),
            !.sonnet_util = model_util(root, "seven_day_sonnet"),
            !.extra_enabled = IF has_extra THEN TRUE ELSE @,
            !.extra_limit = IF has_extra
                            THEN NumberOr(cJSON_GetObjectItem(extra, "monthly_limit"), @)
                            ELSE @,
            !.extra_used = IF has_extra
                           THEN NumberOr(cJSON_GetObjectItem(extra, "used_credits"), @)
                           ELSE @,
            !.valid = TRUE]

\* api_fetch_usage from the result of cJSON_Parse on.
api_extract(out, root) ==
    IF IsNULL(root) THEN Failed(out, "JSON parse error") ELSE parse_usage(out, root)

\* Variant: no branch for status 403.
api_classify_no_403(prior, resp) ==
    LET out == ClearedUsage
        root == cJSON_Parse(resp.body)
    IN  IF resp.error_code # 0 THEN Failed(out, network_error_text(resp.error_code))
        ELSE IF resp.status_code = 401
             THEN Failed(out, "Token expired - reopen Claude Code")
        ELSE IF resp.status_code # 200
             THEN Failed(out, "API error (HTTP " \o ToString(resp.status_code) \o ")")
        ELSE IF resp.body.null THEN Failed(out, "Empty response")
        ELSE IF IsNULL(root) THEN Failed(out, "JSON parse error")
        ELSE parse_usage(out, root)

\* Variant: *out is not zeroed on entry, only the four sentinels are stored.
api_classify_no_memset(prior, resp) ==
    LET out == [prior EXCEPT !.opus_util = -1, !.sonnet_util = -1,
                             !.five_hour_util = -1, !.seven_day_util = -1]
        root == cJSON_Parse(resp.body)
    IN  IF resp.error_code # 0 THEN Failed(out, network_error_text(resp.error_code))
        ELSE IF resp.status_code = 401
             THEN Failed(out, "Token expired - reopen Claude Code")
        ELSE IF resp.status_code = 403 THEN Failed(out, "Access denied")
        ELSE IF resp.status_code # 200
             THEN Failed(out, "API error (HTTP " \o ToString(resp.status_code) \o ")")
        ELSE IF resp.body.null THEN Failed(out, "Empty response")
        ELSE IF IsNULL(root) THEN Failed(out, "JSON parse error")
        ELSE parse_usage(out, root)

\* api_fetch_usage once http_get has returned resp; prior is *out on entry.
api_classify(prior, resp) ==
    LET out == ClearedUsage
        root == cJSON_Parse(resp.body)
    IN  IF resp.error_code # 0 THEN Failed(out, network_error_text(resp.error_code))
        ELSE IF resp.status_code = 401
             THEN Failed(out, "Token expired - reopen Claude Code")
        ELSE IF resp.status_code = 403 THEN Failed(out, "Access denied")
        ELSE IF resp.status_code # 200
             THEN Failed(out, "API error (HTTP " \o ToString(resp.status_code) \o ")")
        ELSE IF resp.body.null THEN Failed(out, "Empty response")
        ELSE api_extract(out, root)

\* TRUE when api_fetch_usage reaches its cJSON_Parse call for this response.
api_parses(resp) ==
    resp.error_code = 0 /\ resp.status_code = 200 /\ ~resp.body.null

api_fetch_usage(access_token, prior, net) == api_classify(prior, http_get(net))

(***************************************************************************)
(* util.c: times are whole seconds on the clock the environment reads.     *)
(***************************************************************************)
Clock == {0, 5370, 6000}

\* sscanf(iso, "%d-%d-%dT%d:%d:%d") and SystemTimeToFileTime: the instant a
\* timestamp text denotes, or failure when the text is no timestamp.
util_parse_iso8601(iso) ==
    CASE iso = TS_5H -> [ok |-> TRUE, t |-> 5400]
      [] iso = TS_7D -> [ok |-> TRUE, t |-> 293399]
      [] OTHER -> [ok |-> FALSE, t |-> 0]

\* Variant: "now" only when the reset time is before the current time.
util_format_time_remaining_strict(reset, now) ==
    IF reset < now THEN "now"
    ELSE LET diff_sec == reset - now
             days == diff_sec \div 86400
             hours == (diff_sec % 86400) \div 3600
             mins == (diff_sec % 3600) \div 60
         IN  IF days > 0 THEN ToString(days) \o "d " \o ToString(hours) \o "h"
             ELSE IF hours > 0 THEN ToString(hours) \o "h " \o ToString(mins) \o "m"
             ELSE ToString(mins) \o "m"

\* The reset time and the current time (GetSystemTime) in whole seconds.
util_format_time_remaining(reset, now) ==
    IF reset <= now THEN "now"
    ELSE LET diff_sec == reset - now
             days == diff_sec \div 86400
             hours == (diff_sec % 86400) \div 3600
             mins == (diff_sec % 3600) \div 60
         IN  IF days > 0 THEN ToString(days) \o "d " \o ToString(hours) \o "h"
             ELSE IF hours > 0 THEN ToString(hours) \o "h " \o ToString(mins) \o "m"
             ELSE ToString(mins) \o "m"

(***************************************************************************)
(* config.c: the credentials file.  A file is a record                     *)
(*   kind  "missing", "unreadable" (ReadFile fails), "text" (not JSON),    *)
(*         "json"                                                          *)
(*   size  its size in bytes                                               *)
(*   root  the JSON value it holds when kind = "json"                      *)
(***************************************************************************)
CredJson(at, st) ==
    [kind |-> "json", size |-> 400,
     root |-> JObj([k \in {"claudeAiOauth"} |->
                JObj([j \in {"accessToken", "subscriptionType"} |->
                        IF j = "accessToken" THEN at ELSE st])])]

MissingFile == [kind |-> "missing", size |-> 0, root |-> JNULLPTR]

\* The files the controller meets while it runs.
CredFiles ==
    { MissingFile,
      [CredJson(JStr("tokA"), JStr("max_200")) EXCEPT !.size = 9000],
      CredJson(JNum(7), JStr("pro")),
      CredJson(JStr(""), JStr("pro")),
      CredJson(JStr("tokA"), JStr("pro")),
      CredJson(JStr("tokB"), JStr("max_200")) }

\* Every kind of file the reader is tried on.
AllCredFiles ==
    CredFiles \cup
    { [kind |-> "unreadable", size |-> 400, root |-> JNULLPTR],
      [kind |-> "text", size |-> 400, root |-> JNULLPTR],
      [kind |-> "json", size |-> 400, root |-> JObj(<<>>)],
      [kind |-> "json", size |-> 400, root |-> JObj([k \in {"claudeAiOauth"} |-> JNull])],
      CredJson(JStr("tokA"), JNull),
      CredJson(JNull, JStr("max")) }

\* The result ok and the contents of the caller's buffer afterwards: a failed
\* read returns before anything is stored in it.
config_read_access_token(file, token) ==
    LET oauth == cJSON_GetObjectItem(file.root, "claudeAiOauth")
        at == cJSON_GetObjectItem(oauth, "accessToken")
    IN  IF file.kind = "missing" THEN [ok |-> FALSE, token |-> token]
        ELSE IF file.size > MAX_CRED_FILE THEN [ok |-> FALSE, token |-> token]
        ELSE IF file.kind = "unreadable" THEN [ok |-> FALSE, token |-> token]
        ELSE IF file.kind # "json" THEN [ok |-> FALSE, token |-> token]
        ELSE IF IsNULL(oauth) THEN [ok |-> FALSE, token |-> token]
        ELSE IF IsNULL(at) \/ ~cJSON_IsString(at) THEN [ok |-> FALSE, token |-> token]
        ELSE [ok |-> TRUE, token |-> strncpy(at.v, MAX_TOKEN_LEN - 1)]

\* The same file, the tier field; the buffer is left alone on failure.
config_read_subscription_type(file, type) ==
    LET oauth == cJSON_GetObjectItem(file.root, "claudeAiOauth")
        st == cJSON_GetObjectItem(oauth, "subscriptionType")
    IN  IF file.kind # "json" \/ file.size > MAX_CRED_FILE
           \/ IsNULL(st) \/ ~cJSON_IsString(st)
        THEN [ok |-> FALSE, type |-> type]
        ELSE [ok |-> TRUE, type |-> strncpy(st.v, SUB_TYPE_LEN - 1)]

(***************************************************************************)
(* config.c: the configuration file, read once at startup.  A file is      *)
(*   exists  whether config.ini is there                                   *)
(*   path    whether it has a non-empty credentials_path line              *)
(*   poll    atoi() of its poll_interval value, or "none" without the key  *)
(***************************************************************************)
ConfigFiles ==
    { [exists |-> FALSE, path |-> FALSE, poll |-> "none"],
      [exists |-> TRUE, path |-> TRUE, poll |-> "none"],
      [exists |-> TRUE, path |-> TRUE, poll |-> "30"],
      [exists |-> TRUE, path |-> TRUE, poll |-> "0"],
      [exists |-> TRUE, path |-> TRUE, poll |-> "-5"],
      [exists |-> TRUE, path |-> FALSE, poll |-> "30"] }

\* atoi: an optional sign, then the decimal digits up to the first other
\* character; 0 when there are none.
Digits == "0123456789"
isdigit(c) == \E i \in 1..10 : SubSeq(Digits, i, i) = c
digit_value(c) == (CHOOSE i \in 1..10 : SubSeq(Digits, i, i) = c) - 1
RECURSIVE atoi_digits(_, _)
atoi_digits(text, acc) ==
    IF text = "" \/ ~isdigit(Head(text)) THEN acc
    ELSE atoi_digits(Tail(text), acc * 10 + digit_value(Head(text)))
atoi(text) ==
    IF text # "" /\ Head(text) = "-" THEN 0 - atoi_digits(Tail(text), 0)
    ELSE IF text # "" /\ Head(text) = "+" THEN atoi_digits(Tail(text), 0)
    ELSE atoi_digits(text, 0)

ZeroConfig == [credentials_path |-> FALSE, poll_interval_sec |-> 0]

parse_config_file(file, cfg) ==
    LET v == atoi(file.poll)
        c == [cfg EXCEPT !.credentials_path = IF file.path THEN TRUE ELSE @,
                         !.poll_interval_sec = IF file.poll # "none" /\ v > 0 THEN v ELSE @]
    IN  [ok |-> c.credentials_path, cfg |-> c]

\* Variant: TRUE is returned once the template is written.
config_load_template_ok(file, found) ==
    LET cfg == [ZeroConfig EXCEPT !.poll_interval_sec = DEFAULT_POLL_SEC]
        parsed == IF file.exists THEN parse_config_file(file, cfg)
                  ELSE [ok |-> FALSE, cfg |-> cfg]
    IN  IF parsed.ok THEN parsed
        ELSE IF found THEN [ok |-> TRUE, cfg |-> [parsed.cfg EXCEPT !.credentials_path = TRUE]]
        ELSE [ok |-> TRUE, cfg |-> parsed.cfg]

\* found: try_find_credentials() finds %USERPROFILE%\.claude\.credentials.json
config_load(file, found) ==
    LET cfg == [ZeroConfig EXCEPT !.poll_interval_sec = DEFAULT_POLL_SEC]
        parsed == IF file.exists THEN parse_config_file(file, cfg)
                  ELSE [ok |-> FALSE, cfg |-> cfg]
    IN  IF parsed.ok THEN parsed
        ELSE IF found THEN [ok |-> TRUE, cfg |-> [parsed.cfg EXCEPT !.credentials_path = TRUE]]
        ELSE [ok |-> FALSE, cfg |-> parsed.cfg]

(***************************************************************************)
(* popup.c: what one usage section of the popup shows.  A double is an     *)
(* integer here, so "%.0f" prints the value itself.                        *)
(***************************************************************************)
INT_MAX == 2147483647
INT_MIN == (0 - INT_MAX) - 1

\* What (int)x yields for a double x outside the range of int: the conversion
\* is undefined, the builds give INT_MIN (x86 cvttsd2si) or saturate.
OutOfRangeInts == {INT_MIN, INT_MAX}

\* MulDiv(base_value, g_dpi, 96), rounded to the nearest integer.
scale_for_dpi(base_value, g_dpi) == (base_value * g_dpi + 48) \div 96

bar_color(util) ==
    IF util < 0 THEN "CLR_MUTED"
    ELSE IF util < 60 THEN "CLR_GREEN"
    ELSE IF util < 80 THEN "CLR_YELLOW"
    ELSE "CLR_RED"

\* (int)(w * (util / 100.0)) for util >= 0; oor is the outcome of the
\* conversion when the product does not fit an int.
fill_width(w, util, oor) ==
    LET q == util \div 100
        part == (w * (util % 100)) \div 100
    IN  IF q > (INT_MAX - part) \div w THEN oor ELSE w * q + part

\* Variant: the fill is not capped at the width of the bar.
draw_progress_bar_uncapped(w, util, oor) ==
    LET fill == fill_width(w, util, oor)
    IN  IF util < 0 THEN [fill |-> 0, color |-> "none"]
        ELSE IF fill > 0 THEN [fill |-> fill, color |-> bar_color(util)]
        ELSE [fill |-> 0, color |-> "none"]

\* The filled rectangle draw_progress_bar paints on a bar w wide: its width
\* and colour, or width 0 and no colour when it paints none.
draw_progress_bar(w, util, oor) ==
    LET raw == fill_width(w, util, oor)
        fill == IF raw > w THEN w ELSE raw
    IN  IF util < 0 THEN [fill |-> 0, color |-> "none"]
        ELSE IF fill > 0 THEN [fill |-> fill, color |-> bar_color(util)]
        ELSE [fill |-> 0, color |-> "none"]

\* Variant: the popup uses the thresholds of the tray icon (80 and 95).
draw_usage_section_icon_thresholds(util, resets_iso, g_dpi, now, oor) ==
    LET w == scale_for_dpi(200, g_dpi)
        st == util_parse_iso8601(resets_iso)
    IN  [bar_w |-> w,
         bar |-> draw_progress_bar(w, util, oor),
         pct |-> IF util >= 0 THEN ToString(util) \o "%" ELSE "N/A",
         pct_color |-> IF util < 0 THEN "CLR_MUTED"
                       ELSE IF util < 80 THEN "CLR_GREEN"
                       ELSE IF util < 95 THEN "CLR_YELLOW" ELSE "CLR_RED",
         line |-> IF resets_iso = "" THEN ""
                  ELSE "Resets in: " \o (IF st.ok THEN util_format_time_remaining(st.t, now)
                                         ELSE "unknown")]

\* draw_usage_section: the bar, the percentage text with its colour and the
\* reset line ("" when none is drawn).
draw_usage_section(util, resets_iso, g_dpi, now, oor) ==
    LET w == scale_for_dpi(200, g_dpi)
        st == util_parse_iso8601(resets_iso)
    IN  [bar_w |-> w,
         bar |-> draw_progress_bar(w, util, oor),
         pct |-> IF util >= 0 THEN ToString(util) \o "%" ELSE "N/A",
         pct_color |-> bar_color(util),
         line |-> IF resets_iso = "" THEN ""
                  ELSE "Resets in: " \o (IF st.ok THEN util_format_time_remaining(st.t, now)
                                         ELSE "unknown")]

\* The first letter in upper case when it is a lower-case ASCII letter.
LowerCase == "abcdefghijklmnopqrstuvwxyz"
UpperCase == "ABCDEFGHIJKLMNOPQRSTUVWXYZ"
capitalize(w) ==
    IF \E i \in 1..26 : SubSeq(LowerCase, i, i) = Head(w)
    THEN LET i == CHOOSE j \in 1..26 : SubSeq(LowerCase, j, j) = Head(w)
         IN  SubSeq(UpperCase, i, i) \o Tail(w)
    ELSE w

\* format_subscription_type: the tier as the title of the popup names it.
\* malloc_ok: whether the buffer for an unknown type could be allocated.
format_subscription_type(type, max_len, malloc_ok) ==
    LET multiplier == IF Len(type) >= 4 /\ SubSeq(type, 1, 4) = "max_"
                      THEN atoi(SubSeq(type, 5, Len(type))) ELSE 0
    IN  IF type = "" THEN "Pro"
        ELSE IF multiplier > 0 THEN "Max " \o ToString(multiplier \div 10) \o "x"
        ELSE IF type = "max" THEN "Max"
        ELSE IF type = "pro" THEN "Pro"
        ELSE IF type = "free" THEN "Free"
        ELSE IF malloc_ok THEN strncpy(capitalize(type), max_len - 1)
        ELSE "Pro"

(***************************************************************************)
(* main.c                                                                  *)
(***************************************************************************)
ZeroApp ==
    [config |-> ZeroConfig, usage |-> ZeroUsage, access_token |-> "",
     last_fetch_failed |-> FALSE, hIcon |-> "none", szTip |-> "", added |-> FALSE]

\* Variant: only the five-hour window decides the icon.
update_tray_icon_five_hour_only(usage) ==
    IF usage.five_hour_util >= 95 THEN "IDI_RED"
    ELSE IF usage.five_hour_util >= 80 THEN "IDI_YELLOW"
    ELSE "IDI_GREEN"

update_tray_icon(usage) ==
    LET max_util == IF usage.seven_day_util > usage.five_hour_util
                    THEN usage.seven_day_util ELSE usage.five_hour_util
    IN  IF max_util >= 95 THEN "IDI_RED"
        ELSE IF max_util >= 80 THEN "IDI_YELLOW"
        ELSE "IDI_GREEN"

\* The text update_tooltip stores in nid.szTip.
update_tooltip(usage, now) ==
    LET st == util_parse_iso8601(usage.five_hour_resets)
        remaining == IF usage.five_hour_resets # "" /\ st.ok
                     THEN util_format_time_remaining(st.t, now) ELSE ""
        pct == "Claude: 5h " \o ToString(usage.five_hour_util) \o "% | 7d "
                \o ToString(usage.seven_day_util) \o "%"
    IN  IF ~usage.valid THEN "Claude: " \o usage.error
        ELSE IF remaining # "" THEN pct \o " | Resets " \o remaining
        ELSE pct

\* Variant: a Valid result does not clear last_fetch_failed.
error_alert_sticky(valid, last_fetch_failed) ==
    IF ~valid
    THEN [balloon |-> ~last_fetch_failed, flag |-> TRUE]
    ELSE [balloon |-> FALSE, flag |-> last_fetch_failed]

\* The alert policy at the end of do_fetch: whether show_error_balloon is
\* called, and the new last_fetch_failed.
error_alert(valid, last_fetch_failed) ==
    IF ~valid
    THEN [balloon |-> ~last_fetch_failed, flag |-> TRUE]
    ELSE [balloon |-> FALSE, flag |-> FALSE]

\* Variant: no short circuit on an empty token.
do_fetch_always_calls(app, file, net, now) ==
    LET rd == config_read_access_token(file, app.access_token)
        st == config_read_subscription_type(file, app.usage.subscription_type)
        token == rd.token
        prior == [app.usage EXCEPT !.subscription_type = st.type]
        usage == api_fetch_usage(token, prior, net)
        alert == error_alert(usage.valid, app.last_fetch_failed)
    IN  [app |-> [app EXCEPT
                    !.access_token = token,
                    !.usage = usage,
                    !.hIcon = update_tray_icon(usage),
                    !.szTip = update_tooltip(usage, now),
                    !.last_fetch_failed = alert.flag],
         read_ok |-> rd.ok,
         http |-> TRUE,
         sent |-> token,
         balloon |-> alert.balloon]

\* do_fetch: the new g_app, and what the cycle did (whether it read a token,
\* whether it called http_get and with which token, whether it alerted).
\* Variant: after a failure that was reported, the result is left as it is and
\* no further request is made.
do_fetch_gives_up(app, file, net, now) ==
    LET rd == config_read_access_token(file, app.access_token)
        st == config_read_subscription_type(file, app.usage.subscription_type)
        token == rd.token
        prior == [app.usage EXCEPT !.subscription_type = st.type]
        none == Failed(ZeroUsage, "No access token found")
        usage == IF app.last_fetch_failed THEN prior
                 ELSE IF token = "" THEN none ELSE api_fetch_usage(token, prior, net)
        alert == error_alert(usage.valid, app.last_fetch_failed)
    IN  [app |-> [app EXCEPT
                    !.access_token = token,
                    !.usage = usage,
                    !.hIcon = IF token = "" THEN @ ELSE update_tray_icon(usage),
                    !.szTip = update_tooltip(usage, now),
                    !.last_fetch_failed = alert.flag],
         read_ok |-> rd.ok,
         http |-> token # "" /\ ~app.last_fetch_failed,
         sent |-> token,
         balloon |-> alert.balloon]

do_fetch(app, file, net, now) ==
    LET rd == config_read_access_token(file, app.access_token)
        st == config_read_subscription_type(file, app.usage.subscription_type)
        token == rd.token
        prior == [app.usage EXCEPT !.subscription_type = st.type]
        none == Failed(ZeroUsage, "No access token found")
        usage == IF token = "" THEN none ELSE api_fetch_usage(token, prior, net)
        alert == error_alert(usage.valid, app.last_fetch_failed)
    IN  [app |-> [app EXCEPT
                    !.access_token = token,
                    !.usage = usage,
                    !.hIcon = IF token = "" THEN @ ELSE update_tray_icon(usage),
                    !.szTip = update_tooltip(usage, now),
                    !.last_fetch_failed = alert.flag],
         read_ok |-> rd.ok,
         http |-> token # "",
         sent |-> token,
         balloon |-> alert.balloon]

(***************************************************************************)
(* The environment: what the network can do to one request.                *)
(***************************************************************************)
Net(fail, err, status, doc, body_fail, at) ==
    [fail |-> fail, err |-> err, status |-> status, doc |-> doc,
     body_fail |-> body_fail, at |-> at]

StatusCodes == {0, 200, 401, 403, 429, 500}
ErrorCodes == {ERROR_WINHTTP_CANNOT_CONNECT, ERROR_WINHTTP_TIMEOUT,
               ERROR_WINHTTP_NAME_NOT_RESOLVED, 12152}

\* Every request outcome the client and the fetcher are tried on.
AllNets ==
    { Net(f, e, 0, "empty", "none", 0) :
        f \in {"connect", "open", "send", "receive"}, e \in ErrorCodes }
    \cup { Net("malloc", 0, c, "full", "none", 0) : c \in StatusCodes }
    \cup { Net("none", 0, c, d, "none", 0) : c \in StatusCodes, d \in DocNames }
    \cup { Net("none", 0, 200, "high", b, k) :
             b \in {"query", "read", "realloc"}, k \in {1, 2, 3} }
    \cup { Net("none", 0, 200, "full", b, 1) : b \in {"query", "read", "realloc"} }

\* The request outcomes the controller meets while it runs.
Nets ==
    { Net("connect", ERROR_WINHTTP_CANNOT_CONNECT, 0, "empty", "none", 0),
      Net("none", 0, 401, "html", "none", 0),
      Net("none", 0, 200, "html", "none", 0),
      Net("none", 0, 200, "full", "none", 0),
      Net("none", 0, 200, "high", "none", 0),
      Net("none", 0, 200, "nulls", "none", 0) }

\* The access token written in a credentials file, whether or not the reader
\* accepts the file; "<none>" when the file has no such string.
HeldToken(file) ==
    LET at == cJSON_GetObjectItem(cJSON_GetObjectItem(file.root, "claudeAiOauth"),
                                  "accessToken")
    IN  IF file.kind = "json" /\ cJSON_IsString(at) THEN at.v ELSE "<none>"

\* The subscription tier written in a credentials file, or "<none>".
HeldTier(file) ==
    LET st == cJSON_GetObjectItem(cJSON_GetObjectItem(file.root, "claudeAiOauth"),
                                  "subscriptionType")
    IN  IF file.kind = "json" /\ cJSON_IsString(st) THEN st.v ELSE "<none>"

NoCycle == [read_ok |-> FALSE, held |-> "<none>", http |-> FALSE, sent |-> "",
            balloon |-> FALSE]

(***************************************************************************)
(* The program.                                                            *)
(***************************************************************************)
Idle ==
    /\ exit_code = -1
    /\ g_app = ZeroApp
    /\ timer = [armed |-> FALSE, period |-> 0]
    /\ cycles = <<>>
    /\ balloons = 0
    /\ last = NoCycle
    /\ prev = NoCycle
    /\ stack = <<>>
    /\ queue = <<>>
    /\ popup = [shown |-> FALSE, data |-> ZeroUsage]
    /\ elapsed = 0

Init ==
    /\ pc = "start"
    /\ Idle
    /\ cred \in CredFiles
    /\ fn_in = "none"
    /\ fn_out = "none"

\* The low 32 bits of sec * 1000 as an unsigned value, worked out in 16-bit
\* halves: what a two's complement multiplication leaves in the register.
mul1000_u32(sec) ==
    LET y == 1000 * (sec % 65536)
        hi == (1000 * (sec \div 65536) + y \div 65536) % 65536
    IN  (hi * 65536) + (y % 65536)

\* What the build can leave when the int product overflows.
int_overflow(sec) == { mul1000_u32(sec) }

\* (UINT)(poll_interval_sec * 1000): the product is an int; beyond INT_MAX it
\* is undefined and `overflowed` is what the build left.
poll_period_ms(sec, overflowed) ==
    IF sec <= INT_MAX \div 1000 THEN sec * 1000 ELSE overflowed

\* SetTimer(hwnd, IDT_POLL_TIMER, (UINT)(poll_interval_sec * 1000), NULL)
SetTimer(cfg) ==
    [armed |-> TRUE,
     period |-> poll_period_ms(cfg.poll_interval_sec, mul1000_u32(cfg.poll_interval_sec))]

\* One completed do_fetch with result f on the credentials file given.
Cycle(f, file) ==
    /\ g_app' = f.app
    /\ cycles' = Append(cycles, IF f.app.usage.valid THEN "Valid" ELSE "Failed")
    /\ balloons' = balloons + (IF f.balloon THEN 1 ELSE 0)
    /\ prev' = last
    /\ last' = [read_ok |-> f.read_ok, held |-> HeldToken(file), http |-> f.http,
                sent |-> f.sent, balloon |-> f.balloon]

\* wWinMain up to the message loop, in an environment that offers these
\* configuration files, these results of the system calls (oks), these request
\* outcomes and these clock readings.
StartupWith(cfgfiles, oks, nets, clocks) ==
    /\ pc = "start"
    /\ \E cfgfile \in cfgfiles, found \in oks, http_ok \in oks,
          wnd_ok \in oks, net \in nets, now \in clocks :
         LET ld == config_load(cfgfile, found)
             rd == config_read_access_token(cred, "")
             app0 == [ZeroApp EXCEPT !.config = ld.cfg]
             app1 == [app0 EXCEPT !.access_token = rd.token]
             app2 == [app1 EXCEPT !.hIcon = "IDI_GREEN",
                                  !.szTip = "Claude Usage: Loading...",
                                  !.added = TRUE]
         IN  IF ~ld.ok \/ ~rd.ok \/ ~http_ok \/ ~wnd_ok
             THEN /\ pc' = "exit"
                  /\ exit_code' = 1
                  /\ g_app' = IF ld.ok THEN app1 ELSE app0
                  /\ UNCHANGED <<timer, cycles, balloons, last, prev, stack>>
             ELSE /\ pc' = "loop"
                  /\ exit_code' = exit_code
                  /\ timer' = SetTimer(ld.cfg)
                  /\ Cycle(do_fetch(app2, cred, net, now), cred)
                  /\ stack' = <<"GetMessageW">>
    /\ UNCHANGED <<cred, fn_in, fn_out, queue, popup, elapsed>>

Startup == StartupWith(ConfigFiles, BOOLEAN, Nets, Clock)

\* WM_TIMER with wParam = IDT_POLL_TIMER.  The credentials file is what the
\* external tool has left there by now.
TimerTick ==
    /\ pc = "loop"
    /\ timer.armed
    /\ Len(cycles) < MaxCycles
    /\ \E file \in CredFiles, net \in Nets, now \in Clock :
         /\ cred' = file
         /\ Cycle(do_fetch(g_app, file, net, now), file)
    /\ UNCHANGED <<pc, exit_code, timer, fn_in, fn_out, uivars>>

\* WM_COMMAND with IDM_REFRESH
Refresh ==
    /\ pc = "loop"
    /\ Len(cycles) < MaxCycles
    /\ \E file \in CredFiles, net \in Nets, now \in Clock :
         /\ cred' = file
         /\ Cycle(do_fetch(g_app, file, net, now), file)
    /\ timer' = SetTimer(g_app.config)
    /\ UNCHANGED <<pc, exit_code, fn_in, fn_out, uivars>>

\* WM_COMMAND with IDM_EXIT, or WM_DESTROY: the message loop ends.
Exit ==
    /\ pc = "loop"
    /\ pc' = "exit"
    /\ exit_code' = 0
    /\ stack' = <<>>
    /\ UNCHANGED <<cred, g_app, timer, cycles, balloons, last, prev, fn_in, fn_out,
                   queue, popup, elapsed>>

Next == Startup \/ TimerTick \/ Refresh \/ Exit

Spec == Init /\ [][Next]_vars

(***************************************************************************)
(* The same program message by message.  The UI thread is the only thread: *)
(* a handler runs when a loop that retrieves messages dispatches one, that  *)
(* is the GetMessageW loop of wWinMain or the modal loop TrackPopupMenu     *)
(* runs while the context menu is open.  Tray clicks and menu commands are  *)
(* posted; WM_TIMER is produced when the queue is empty and the timer is    *)
(* due.  do_fetch is split in its entry and its return, the blocking        *)
(* WinHTTP calls lie in between.                                            *)
(***************************************************************************)
Top == stack[Len(stack)]
Pop == SubSeq(stack, 1, Len(stack) - 1)

\* Variant: do_fetch reports a failure in a message box, which runs a modal
\* loop of its own.
Pumps_modal_fetch(frame) ==
    frame \in {"GetMessageW", "TrackPopupMenu", "do_fetch@WM_TIMER", "do_fetch@IDM_REFRESH"}

\* The functions that retrieve and dispatch messages while they run.
Pumps(frame) == frame \in {"GetMessageW", "TrackPopupMenu"}

InFetch(frame) == frame \in {"do_fetch@WM_TIMER", "do_fetch@IDM_REFRESH"}

Dispatching == pc \in {"loop", "quit"} /\ stack # <<>> /\ Pumps(Top)
Dispatch(msg) == Dispatching /\ queue # <<>> /\ Head(queue) = msg

\* KillTimer(hwnd, IDT_POLL_TIMER)
KillTimer == [armed |-> FALSE, period |-> 0]

\* Variant: a popup that is already open is raised without taking the result.
popup_show_raise_only(p, usage) ==
    [shown |-> TRUE, data |-> IF p.shown THEN p.data ELSE usage]

\* popup_show: g_popup_data = *usage, and the popup window exists afterwards.
popup_show(p, usage) == [shown |-> TRUE, data |-> usage]

popup_hide(p) == [p EXCEPT !.shown = FALSE]

\* The request outcomes and clock readings of the message-level runs.
UINets == { Net("none", 0, 401, "html", "none", 0),
            Net("none", 0, 200, "full", "none", 0) }
UIClock == {0}
UIConfigs == { [exists |-> TRUE, path |-> TRUE, poll |-> "30"] }

UIStartup == StartupWith(UIConfigs, {TRUE}, UINets, UIClock)

\* The user clicks the tray icon: the shell posts WM_TRAYICON.
PostClick ==
    /\ pc = "loop"
    /\ Len(queue) < MaxQueue
    /\ \E m \in {"WM_LBUTTONUP", "WM_RBUTTONUP"} : queue' = Append(queue, m)
    /\ UNCHANGED <<pc, exit_code, cred, g_app, timer, cycles, balloons, last, prev,
                   fn_in, fn_out, stack, popup, elapsed>>

\* Half a poll interval passes; the thread may be anywhere meanwhile.
TimePasses ==
    /\ pc = "loop"
    /\ timer.armed
    /\ elapsed < 2
    /\ elapsed' = elapsed + 1
    /\ UNCHANGED <<pc, exit_code, cred, g_app, timer, cycles, balloons, last, prev,
                   fn_in, fn_out, stack, queue, popup>>

\* WM_TIMER: do_fetch is entered.
OnTimer ==
    /\ Dispatching
    /\ queue = <<>>
    /\ timer.armed /\ elapsed = 2
    /\ Len(cycles) <= MaxFetches
    /\ elapsed' = 0
    /\ stack' = Append(stack, "do_fetch@WM_TIMER")
    /\ UNCHANGED <<pc, exit_code, cred, g_app, timer, cycles, balloons, last, prev,
                   fn_in, fn_out, queue, popup>>

\* The do_fetch of WM_TIMER returns, and the handler with it.
TimerFetchReturn ==
    /\ stack # <<>> /\ Top = "do_fetch@WM_TIMER"
    /\ \E net \in UINets, now \in UIClock : Cycle(do_fetch(g_app, cred, net, now), cred)
    /\ stack' = Pop
    /\ UNCHANGED <<pc, exit_code, cred, timer, fn_in, fn_out, queue, popup, elapsed>>

\* WM_COMMAND IDM_REFRESH: KillTimer, and do_fetch is entered.
OnRefresh ==
    /\ Dispatch("IDM_REFRESH")
    /\ queue' = Tail(queue)
    /\ timer' = KillTimer
    /\ elapsed' = 0
    /\ stack' = Append(stack, "do_fetch@IDM_REFRESH")
    /\ UNCHANGED <<pc, exit_code, cred, g_app, cycles, balloons, last, prev,
                   fn_in, fn_out, popup>>

\* Variant: the timer is not set again after the fetch.
RefreshReturn_no_rearm ==
    /\ stack # <<>> /\ Top = "do_fetch@IDM_REFRESH"
    /\ \E net \in UINets, now \in UIClock : Cycle(do_fetch(g_app, cred, net, now), cred)
    /\ stack' = Pop
    /\ UNCHANGED <<pc, exit_code, cred, timer, fn_in, fn_out, queue, popup, elapsed>>

\* The do_fetch of IDM_REFRESH returns, SetTimer, and the handler returns.
RefreshReturn ==
    /\ stack # <<>> /\ Top = "do_fetch@IDM_REFRESH"
    /\ \E net \in UINets, now \in UIClock : Cycle(do_fetch(g_app, cred, net, now), cred)
    /\ timer' = SetTimer(g_app.config)
    /\ elapsed' = 0
    /\ stack' = Pop
    /\ UNCHANGED <<pc, exit_code, cred, fn_in, fn_out, queue, popup>>

\* WM_TRAYICON with WM_LBUTTONUP: popup_show.
OnLeftClick ==
    /\ Dispatch("WM_LBUTTONUP")
    /\ queue' = Tail(queue)
    /\ popup' = popup_show(popup, g_app.usage)
    /\ UNCHANGED <<pc, exit_code, cred, g_app, timer, cycles, balloons, last, prev,
                   fn_in, fn_out, stack, elapsed>>

\* WM_TRAYICON with WM_RBUTTONUP: show_context_menu up to TrackPopupMenu, which
\* fails at once when a menu is open already.
OnRightClick ==
    /\ Dispatch("WM_RBUTTONUP")
    /\ IF \E i \in DOMAIN stack : stack[i] = "TrackPopupMenu"
       THEN queue' = Append(Tail(queue), "WM_NULL") /\ stack' = stack
       ELSE queue' = Tail(queue) /\ stack' = Append(stack, "TrackPopupMenu")
    /\ UNCHANGED <<pc, exit_code, cred, g_app, timer, cycles, balloons, last, prev,
                   fn_in, fn_out, popup, elapsed>>

\* The user picks a command or dismisses the menu: TrackPopupMenu posts the
\* WM_COMMAND and returns, show_context_menu posts WM_NULL and returns.
MenuSelect ==
    /\ stack # <<>> /\ Top = "TrackPopupMenu"
    /\ \E cmd \in {"none", "IDM_REFRESH", "IDM_OPENCONFIG", "IDM_EXIT"} :
         /\ cmd # "none" => pc = "loop" /\ Len(queue) < MaxQueue
         /\ cmd = "IDM_REFRESH" => Len(cycles) <= MaxFetches
         /\ queue' = (IF cmd = "none" THEN queue ELSE Append(queue, cmd)) \o <<"WM_NULL">>
    /\ stack' = Pop
    /\ UNCHANGED <<pc, exit_code, cred, g_app, timer, cycles, balloons, last, prev,
                   fn_in, fn_out, popup, elapsed>>

\* WM_COMMAND IDM_OPENCONFIG (notepad is started) and WM_NULL (DefWindowProcW).
OnOther ==
    /\ \E m \in {"IDM_OPENCONFIG", "WM_NULL"} : Dispatch(m)
    /\ queue' = Tail(queue)
    /\ UNCHANGED <<pc, exit_code, cred, g_app, timer, cycles, balloons, last, prev,
                   fn_in, fn_out, stack, popup, elapsed>>

\* WM_COMMAND IDM_EXIT: PostQuitMessage(0).
OnExit ==
    /\ Dispatch("IDM_EXIT")
    /\ queue' = Tail(queue)
    /\ pc' = "quit"
    /\ UNCHANGED <<exit_code, cred, g_app, timer, cycles, balloons, last, prev,
                   fn_in, fn_out, stack, popup, elapsed>>

\* The popup loses the focus or gets Escape: popup_hide.
PopupHide ==
    /\ Dispatching
    /\ popup.shown
    /\ popup' = popup_hide(popup)
    /\ UNCHANGED <<pc, exit_code, cred, g_app, timer, cycles, balloons, last, prev,
                   fn_in, fn_out, stack, queue, elapsed>>

\* GetMessageW returns 0 once the queue is empty: the loop and wWinMain end.
Quit ==
    /\ pc = "quit"
    /\ stack = <<"GetMessageW">> /\ queue = <<>>
    /\ pc' = "exit"
    /\ exit_code' = 0
    /\ stack' = <<>>
    /\ popup' = popup_hide(popup)
    /\ UNCHANGED <<cred, g_app, timer, cycles, balloons, last, prev, fn_in, fn_out,
                   queue, elapsed>>

InitUI == Init /\ cred = CredJson(JStr("tokA"), JStr("pro"))

NextUI ==
    \/ UIStartup \/ PostClick \/ TimePasses
    \/ OnTimer \/ TimerFetchReturn \/ OnRefresh \/ RefreshReturn
    \/ OnLeftClick \/ OnRightClick \/ MenuSelect \/ OnOther \/ OnExit
    \/ PopupHide \/ Quit

SpecUI == InitUI /\ [][NextUI]_vars

(***************************************************************************)
(* Function specifications: one function of the program applied once to an *)
(* input drawn from a bounded set.  The controller stays idle.             *)
(***************************************************************************)
\* The calls of one fetch that acquire or release a resource, in the order
\* the code makes them.
acquire(res) == [op |-> "acquire", res |-> res]
release(res) == [op |-> "release", res |-> res]

\* The cleanup label of http_get.
cleanup(hConnect, hRequest) ==
    (IF hRequest THEN <<release("hRequest")>> ELSE <<>>)
    \o (IF hConnect THEN <<release("hConnect")>> ELSE <<>>)

\* Variant: a failed WinHttpReceiveResponse returns the response at once.
http_get_calls_return_early(net) ==
    IF net.fail = "connect" THEN cleanup(FALSE, FALSE)
    ELSE IF net.fail = "open" THEN <<acquire("hConnect")>> \o cleanup(TRUE, FALSE)
    ELSE IF net.fail = "receive" THEN <<acquire("hConnect"), acquire("hRequest")>>
    ELSE IF net.fail \in {"send", "malloc"}
    THEN <<acquire("hConnect"), acquire("hRequest")>> \o cleanup(TRUE, TRUE)
    ELSE <<acquire("hConnect"), acquire("hRequest"), acquire("buf")>>
         \o (IF ReadLoop(net, 1, 0, BUF_CAP_INIT).null THEN <<release("buf")>> ELSE <<>>)
         \o cleanup(TRUE, TRUE)

\* http_get: WinHttpConnect, WinHttpOpenRequest, malloc, the free of a failed
\* realloc, and the WinHttpCloseHandle calls of cleanup.
http_get_calls(net) ==
    IF net.fail = "connect" THEN cleanup(FALSE, FALSE)
    ELSE IF net.fail = "open" THEN <<acquire("hConnect")>> \o cleanup(TRUE, FALSE)
    ELSE IF net.fail \in {"send", "receive", "malloc"}
    THEN <<acquire("hConnect"), acquire("hRequest")>> \o cleanup(TRUE, TRUE)
    ELSE <<acquire("hConnect"), acquire("hRequest"), acquire("buf")>>
         \o (IF ReadLoop(net, 1, 0, BUF_CAP_INIT).null THEN <<release("buf")>> ELSE <<>>)
         \o cleanup(TRUE, TRUE)

\* free(resp->body) when there is a body.
http_response_free(resp) == IF resp.body.null THEN <<>> ELSE <<release("buf")>>

\* api_fetch_usage: http_get, then http_response_free on each return before
\* the parse, or cJSON_Parse, http_response_free and cJSON_Delete.
api_fetch_usage_calls(net) ==
    LET resp == http_get(net)
        root == cJSON_Parse(resp.body)
    IN  http_get_calls(net)
        \o (IF ~api_parses(resp) THEN http_response_free(resp)
            ELSE IF IsNULL(root) THEN http_response_free(resp)
            ELSE <<acquire("root")>> \o http_response_free(resp) \o <<release("root")>>)

InitFn(tag, inputs) ==
    /\ pc = tag
    /\ Idle
    /\ cred = MissingFile
    /\ fn_in \in inputs
    /\ fn_out = "none"

ApplyFn(tag, done, result) ==
    /\ pc = tag
    /\ pc' = done
    /\ fn_out' = result
    /\ UNCHANGED <<exit_code, cred, g_app, timer, cycles, balloons, last, prev, fn_in,
                   uivars>>

\* api_fetch_usage on every response http_get could hand it, and on more.
Bodies == { NullBody, BodyOf("empty", 0), BodyOf("html", 300), BodyOf("full", 260),
            BodyOf("high", 4096) }
Responses ==
    { HttpResponse(c, b, b.len, e) :
        c \in StatusCodes, b \in Bodies, e \in {0, ERROR_NOT_ENOUGH_MEMORY} \cup ErrorCodes }
Priors == { ZeroUsage,
            [parse_usage(ClearedUsage, Doc("full").root) EXCEPT !.subscription_type = "pro"] }

InitApi == InitFn("api", [resp : Responses, prior : Priors])
ApplyApi == ApplyFn("api", "api_done", api_classify(fn_in.prior, fn_in.resp))
SpecApi == InitApi /\ [][ApplyApi]_vars

\* http_get followed by api_fetch_usage on every request outcome.
InitFetch == InitFn("fetch", [net : AllNets, prior : Priors])
ApplyFetch == ApplyFn("fetch", "fetch_done", api_fetch_usage("tokA", fn_in.prior, fn_in.net))
SpecFetch == InitFetch /\ [][ApplyFetch]_vars

\* parse_usage_field on a root whose member `name` is missing, null or an
\* object with any utilization and resets_at, next to an unrelated member.
WindowNames == {"five_hour", "seven_day", "seven_day_opus", "seven_day_sonnet"}
Members(u, r) ==
    JObj([k \in {j \in {"utilization", "resets_at"} :
                   ~IsNULL(IF j = "utilization" THEN u ELSE r)} |->
            IF k = "utilization" THEN u ELSE r])
FieldValues ==
    { JNULLPTR, JNull, JNum(12), JStr("x") }
    \cup { Members(u, r) :
             u \in {JNULLPTR, JNull, JStr("30"), JNum(-5), JNum(0), JNum(30), JNum(150)},
             r \in {JNULLPTR, JNull, JNum(5), JStr(TS_5H)} }
RootWith(name, fv, other) ==
    JObj([k \in (IF IsNULL(fv) THEN {} ELSE {name})
                 \cup (IF other THEN {"extra_usage"} ELSE {}) |->
            IF k = name THEN fv ELSE Extra(JBool(TRUE), JNum(100), JNum(1))])

InitParse == InitFn("parse", [name : WindowNames, field : FieldValues, other : BOOLEAN])
ApplyParse ==
    ApplyFn("parse", "parse_done",
            parse_usage_field(RootWith(fn_in.name, fn_in.field, fn_in.other), fn_in.name))
SpecParse == InitParse /\ [][ApplyParse]_vars

\* api_fetch_usage from cJSON_Parse on, on a root in which each of the five
\* members is missing (NULL), null or an object.
FieldNames == {"five_hour", "seven_day", "seven_day_opus", "seven_day_sonnet",
               "extra_usage"}
UsageWindows == { JNULLPTR, JNull, Window(JNum(30), JStr(TS_5H)),
                  Window(JNum(150), JNull) }
ModelWindows == { JNULLPTR, JNull, Window(JNum(40), JNull) }
ExtraValues == { JNULLPTR, JNull, Extra(JBool(TRUE), JNum(4250), JNum(100)),
                 Extra(JBool(FALSE), JNull, JNum(7)) }
RootOf(members) ==
    JObj([k \in {j \in FieldNames : ~IsNULL(members[j])} |-> members[k]])

InitExtract ==
    InitFn("extract", [five_hour : UsageWindows, seven_day : UsageWindows,
                       seven_day_opus : ModelWindows, seven_day_sonnet : ModelWindows,
                       extra_usage : ExtraValues])
ApplyExtract == ApplyFn("extract", "extract_done", api_extract(ClearedUsage, RootOf(fn_in)))
SpecExtract == InitExtract /\ [][ApplyExtract]_vars

\* One window sent by the server, stored by parse_usage_field and drawn by
\* draw_usage_section at a display scale.
SentUtilizations ==
    { JNULLPTR, JNull, JStr("30") }
    \cup { JNum(n) : n \in {-5, -1, 0, 30, 59, 60, 79, 80, 94, 95, 100, 101, 150,
                            1073741823, 2000000000} }
SentResets == { JNULLPTR, JStr(TS_5H), JStr(TS_BAD) }
Dpis == {96, 120, 144, 192}

InitSection == InitFn("section", [util : SentUtilizations, resets : SentResets, dpi : Dpis])
ApplySection ==
    \E now \in Clock, oor \in OutOfRangeInts :
        LET stored == parse_usage_field(
                          RootWith("five_hour", Members(fn_in.util, fn_in.resets), FALSE),
                          "five_hour")
        IN  ApplyFn("section", "section_done",
                    [stored |-> stored,
                     drawn |-> draw_usage_section(stored.util, stored.resets, fn_in.dpi,
                                                  now, oor)])
SpecSection == InitSection /\ [][ApplySection]_vars

\* update_tray_icon on every pair of window utilizations around its thresholds.
IconUtilizations == {-5, -1, 0, 30, 79, 80, 94, 95, 100, 150}
InitIcon == InitFn("icon", [five : IconUtilizations, seven : IconUtilizations])
ApplyIcon ==
    ApplyFn("icon", "icon_done",
            update_tray_icon([ZeroUsage EXCEPT !.five_hour_util = fn_in.five,
                                               !.seven_day_util = fn_in.seven]))
SpecIcon == InitIcon /\ [][ApplyIcon]_vars

\* http_get on every request outcome.
InitHttp == InitFn("http", AllNets)
ApplyHttp == ApplyFn("http", "http_done", http_get(fn_in))
SpecHttp == InitHttp /\ [][ApplyHttp]_vars

\* util_format_time_remaining on reset times at these distances in seconds
\* from the current time.
Distances == {-3600, -1, 0, 1, 30, 59, 60, 61, 3599, 3600, 3661, 5400, 7200,
              86399, 86400, 90000, 172799, 260000}
InitTime == InitFn("time", [now : {0, 1000, 86400, 100000}, d : Distances])
ApplyTime ==
    ApplyFn("time", "time_done", util_format_time_remaining(fn_in.now + fn_in.d, fn_in.now))
SpecTime == InitTime /\ [][ApplyTime]_vars

\* config_load on a config.ini with any of these poll_interval texts, then the
\* SetTimer call of wWinMain and of IDM_REFRESH on the loaded configuration.
PollTexts == {"none", "30", "0", "-5", "abc", "1", "30s", "2147483", "4294968",
              "5000000", "8589935"}
PollConfigs == [exists : BOOLEAN, path : BOOLEAN, poll : PollTexts]
InitPoll == InitFn("poll", [file : PollConfigs, found : BOOLEAN])
ApplyPoll ==
    LET loaded == config_load(fn_in.file, fn_in.found)
    IN  \E overflowed \in int_overflow(loaded.cfg.poll_interval_sec) :
            ApplyFn("poll", "poll_done",
                    [ok |-> loaded.ok, cfg |-> loaded.cfg,
                     timer |-> IF loaded.ok
                               THEN [armed |-> TRUE,
                                     period |-> poll_period_ms(loaded.cfg.poll_interval_sec,
                                                               overflowed)]
                               ELSE [armed |-> FALSE, period |-> 0]])
SpecPoll == InitPoll /\ [][ApplyPoll]_vars

\* format_subscription_type on the tier names a credentials file can hold,
\* into the 32-character buffer of the title.
TypeHeads == {"", "pro", "max", "free", "max_", "team", "Pro", "x_"}
TypeTails == {"", "0", "5", "50", "200", "abc", "2x"}
SubscriptionTypes == { h \o t : h \in TypeHeads, t \in TypeTails }
InitFormat == InitFn("format", SubscriptionTypes)
ApplyFormat ==
    \E malloc_ok \in BOOLEAN :
        ApplyFn("format", "format_done",
                format_subscription_type(fn_in, SUB_TYPE_LEN, malloc_ok))
SpecFormat == InitFormat /\ [][ApplyFormat]_vars

\* The resource calls of http_get and of api_fetch_usage on every request
\* outcome.
InitCalls == InitFn("calls", AllNets)
ApplyCalls ==
    ApplyFn("calls", "calls_done",
            [http |-> http_get_calls(fn_in), fetch |-> api_fetch_usage_calls(fn_in),
             resp |-> http_get(fn_in)])
SpecCalls == InitCalls /\ [][ApplyCalls]_vars

(***************************************************************************)
(* popup.c: the life of the popup window.  fn_out holds                    *)
(*   g_popup   the handle kept by popup.c, 0 for NULL                      *)
(*   created   how many windows CreateWindowExW has made; handle n is the  *)
(*             n-th of them                                                *)
(*   windows   the handles of the windows that exist                       *)
(*   focus     whether the popup has the keyboard focus                    *)
(*   destroys  the handles DestroyWindow was called on, in order           *)
(* and stack holds the DestroyWindow call under way, if any.  DestroyWindow *)
(* takes the focus from the window it destroys, which sends WM_KILLFOCUS   *)
(* to its window procedure before the call returns.                        *)
(***************************************************************************)
MaxPopups == 4

PopupIdle == pc = "popup" /\ stack = <<>>

PopupUnchanged ==
    UNCHANGED <<exit_code, cred, g_app, timer, cycles, balloons, last, prev, fn_in,
                queue, popup, elapsed>>

\* popup_show: an existing window is raised and focused, else one is created.
PopupShowCall ==
    /\ PopupIdle
    /\ IF fn_out.g_popup # 0
       THEN fn_out' = [fn_out EXCEPT !.focus = TRUE]
       ELSE /\ fn_out.created < MaxPopups
            /\ fn_out' = [fn_out EXCEPT !.g_popup = fn_out.created + 1,
                                        !.created = @ + 1,
                                        !.windows = @ \cup {fn_out.created + 1},
                                        !.focus = TRUE]
    /\ UNCHANGED <<pc, stack>>
    /\ PopupUnchanged

\* popup_hide up to its DestroyWindow call; nothing happens without a popup.
\* cause: WM_KEYDOWN with VK_ESCAPE, WM_KILLFOCUS after the user clicked
\* elsewhere, or the cleanup of wWinMain.
PopupHideCall ==
    /\ PopupIdle
    /\ \E cause \in {"VK_ESCAPE", "WM_KILLFOCUS", "cleanup"} :
         /\ cause = "VK_ESCAPE" => fn_out.g_popup # 0 /\ fn_out.focus
         /\ cause = "WM_KILLFOCUS" => fn_out.g_popup # 0 /\ fn_out.focus
         /\ pc' = IF cause = "cleanup" THEN "popup_exit" ELSE pc
         /\ IF fn_out.g_popup = 0
            THEN UNCHANGED <<fn_out, stack>>
            ELSE /\ stack' = <<"DestroyWindow">>
                 /\ fn_out' = [fn_out EXCEPT
                                 !.focus = IF cause = "WM_KILLFOCUS" THEN FALSE ELSE @,
                                 !.destroys = Append(@, fn_out.g_popup)]
    /\ PopupUnchanged

\* DestroyWindow removes the focus: WM_KILLFOCUS, and PopupProc calls
\* popup_hide, which finds g_popup still set.
KillFocusInDestroy ==
    /\ stack = <<"DestroyWindow">>
    /\ fn_out.focus
    /\ fn_out' = [fn_out EXCEPT
                    !.focus = FALSE,
                    !.destroys = IF fn_out.g_popup # 0 THEN Append(@, fn_out.g_popup) ELSE @,
                    !.g_popup = 0]
    /\ UNCHANGED <<pc, stack>>
    /\ PopupUnchanged

\* DestroyWindow returns and popup_hide clears g_popup.
DestroyReturn ==
    /\ stack = <<"DestroyWindow">>
    /\ ~fn_out.focus
    /\ stack' = <<>>
    /\ fn_out' = [fn_out EXCEPT
                    !.windows = @ \ {fn_out.destroys[Len(fn_out.destroys)]},
                    !.g_popup = 0]
    /\ UNCHANGED pc
    /\ PopupUnchanged

InitPopup ==
    /\ pc = "popup"
    /\ Idle
    /\ cred = MissingFile
    /\ fn_in = "none"
    /\ fn_out = [g_popup |-> 0, created |-> 0, windows |-> {}, focus |-> FALSE,
                 destroys |-> <<>>]
NextPopup == PopupShowCall \/ PopupHideCall \/ KillFocusInDestroy \/ DestroyReturn
SpecPopup == InitPopup /\ [][NextPopup]_vars

(***************************************************************************)
(* Properties.                                                             *)
(***************************************************************************)
N == Len(cycles)

\* Cycle i opens a failure episode: it Failed and no Failed cycle precedes it
\* directly.
FirstOfEpisode(i) == cycles[i] = "Failed" /\ (i = 1 \/ cycles[i - 1] = "Valid")

\* The reader is able to obtain a token from the file: the file is there, is
\* readable, is at most 8192 bytes, is JSON and has the token string.
TokenObtainable(file) ==
    file.kind = "json" /\ file.size <= 8192 /\ HeldToken(file) # "<none>"

\* C1: over any sequence of fetch cycles an error balloon is shown exactly on
\* the cycles that Failed and whose previous cycle was Valid or did not exist,
\* so the number of balloons is the number of failure episodes.
C1_AlertPerEpisode ==
    /\ balloons = Cardinality({i \in 1..N : FirstOfEpisode(i)})
    /\ N >= 1 => (last.balloon <=> FirstOfEpisode(N))

\* Two Failed cycles, one Valid, one Failed (here a no-token failure): 2 balloons.
C1_Witness ==
    /\ cycles = <<"Failed", "Failed", "Valid", "Failed">>
    /\ balloons = 2
    /\ g_app.access_token = ""

C3_EmptyBody ==
    pc = "fetch_done" /\ fn_in.net.fail = "none" /\ fn_in.net.body_fail = "none"
        /\ fn_in.net.status = 200 /\ Doc(fn_in.net.doc).chunks = <<>> =>
        ~fn_out.valid /\ fn_out.error = "Empty response"

\* C4: a non-zero transport error code gives Failed with the message of that
\* code, whatever the status code and the body are, and nothing of the body
\* reaches the result.
C4_TransportError ==
    pc = "api_done" /\ fn_in.resp.error_code # 0 =>
        /\ ~fn_out.valid
        /\ fn_out.error =
             CASE fn_in.resp.error_code = 12029 -> "Cannot connect to api.anthropic.com"
               [] fn_in.resp.error_code = 12002 -> "Request timed out"
               [] fn_in.resp.error_code = 12007 -> "DNS resolution failed"
               [] fn_in.resp.error_code = 12152 -> "Network error (code 12152)"
               [] fn_in.resp.error_code = 8 -> "Network error (code 8)"
        /\ fn_out.five_hour_util = -1 /\ fn_out.seven_day_util = -1
        /\ fn_out.opus_util = -1 /\ fn_out.sonnet_util = -1
        /\ fn_out.five_hour_resets = "" /\ fn_out.seven_day_resets = ""
        /\ ~fn_out.extra_enabled /\ fn_out.extra_limit = 0 /\ fn_out.extra_used = 0

\* An unlisted error code next to status 200 and a complete usage document.
C4_Witness ==
    /\ pc = "api_done"
    /\ fn_in.resp.error_code = 12152
    /\ fn_in.resp.status_code = 200
    /\ fn_in.resp.body = BodyOf("full", 260)
    /\ fn_out.error = "Network error (code 12152)"

\* C5: a cycle in which the token cannot be obtained from the credentials file
\* makes no network call and ends Failed with "No access token found".
C5_NoTokenNoCall ==
    N >= 1 /\ ~TokenObtainable(cred) =>
        /\ ~last.http
        /\ ~g_app.usage.valid
        /\ g_app.usage.error = "No access token found"

\* C6: of two consecutive cycles between which the token in the credentials
\* file changes, each sends the token the file held when that cycle started.
C6_TokenOfTheCycle ==
    N >= 2 /\ prev.held # "<none>" /\ last.held # "<none>" /\ prev.held # last.held =>
        /\ prev.http => prev.sent = prev.held
        /\ last.http => last.sent = last.held

\* What does hold: a cycle whose re-read succeeds sends the token just read.
C6_PickupWhenRead == N >= 1 /\ last.read_ok /\ last.http => last.sent = last.held

\* C7: when the token the controller holds as the fetch proper starts (after
\* the re-read, at the test of do_fetch) is empty, the cycle ends Failed with
\* "No access token found", http_get is not called, the tooltip shows the
\* error, and the alert policy is that of any failure.
C7_EmptyTokenShortCircuit ==
    N >= 1 /\ g_app.access_token = "" =>
        /\ ~last.http
        /\ ~g_app.usage.valid
        /\ g_app.usage.error = "No access token found"
        /\ g_app.szTip = "Claude: No access token found"
        /\ g_app.last_fetch_failed
        /\ last.balloon <=> (N = 1 \/ cycles[N - 1] = "Valid")

\* A Valid cycle, then the file holds an empty token: the failure alerts.
C7_Witness ==
    /\ N >= 2
    /\ cycles[N - 1] = "Valid"
    /\ g_app.access_token = ""
    /\ last.balloon

\* C8: after every cycle the cached result is Valid without error text or
\* Failed with one, and a Failed result holds no utilization, reset time or
\* extra-usage value: every such field is zero, empty or the sentinel.
C8_ValidXorError ==
    N >= 1 =>
        LET u == g_app.usage
        IN  /\ (u.valid /\ u.error = "") \/ (~u.valid /\ u.error # "")
            /\ ~u.valid =>
                 /\ u.five_hour_util \in {-1, 0} /\ u.seven_day_util \in {-1, 0}
                 /\ u.opus_util \in {-1, 0} /\ u.sonnet_util \in {-1, 0}
                 /\ u.five_hour_resets = "" /\ u.seven_day_resets = ""
                 /\ ~u.extra_enabled /\ u.extra_limit = 0 /\ u.extra_used = 0

\* A cycle the server refused, right after a Valid one: the cached result is
\* Failed with the message of the refusal and none of the earlier values.
C8_Witness ==
    /\ N >= 2
    /\ cycles[N - 1] = "Valid"
    /\ ~g_app.usage.valid
    /\ last.http
    /\ g_app.usage.error = "Token expired - reopen Claude Code"
    /\ g_app.usage.five_hour_util = -1

\* C9: after a Valid cycle in which the credentials file provided a tier, the
\* cached result carries that tier.
C9_TierCarried ==
    N >= 1 /\ g_app.usage.valid /\ cred.kind = "json" /\ cred.size <= 8192
        /\ HeldTier(cred) # "<none>" =>
        g_app.usage.subscription_type = HeldTier(cred)

\* C10: for every window name parse_usage_field gives the sentinel and an
\* empty reset time for a null member, and the same for a missing member.
Twin(field) == IF IsNULL(field) THEN JNull ELSE JNULLPTR
C10_NullAsMissing ==
    pc = "parse_done" /\ (IsNULL(fn_in.field) \/ cJSON_IsNull(fn_in.field)) =>
        /\ fn_out = [util |-> -1, resets |-> ""]
        /\ fn_out = parse_usage_field(RootWith(fn_in.name, Twin(fn_in.field), fn_in.other),
                                      fn_in.name)

C10_Witness ==
    /\ pc = "parse_done"
    /\ cJSON_IsNull(fn_in.field)
    /\ fn_in.name = "seven_day_opus"
    /\ fn_in.other
    /\ fn_out.util = -1

\* C11: every root that parsed gives a Valid result, whichever of the five
\* members are present, null or missing, and what is stored for one member is
\* what would be stored for it if every other member were missing.
Alone(name) ==
    api_extract(ClearedUsage,
                RootOf([k \in FieldNames |-> IF k = name THEN fn_in[k] ELSE JNULLPTR]))
C11_FieldsIndependent ==
    pc = "extract_done" =>
        /\ fn_out.valid /\ fn_out.error = ""
        /\ fn_out.five_hour_util = Alone("five_hour").five_hour_util
        /\ fn_out.five_hour_resets = Alone("five_hour").five_hour_resets
        /\ fn_out.seven_day_util = Alone("seven_day").seven_day_util
        /\ fn_out.seven_day_resets = Alone("seven_day").seven_day_resets
        /\ fn_out.opus_util = Alone("seven_day_opus").opus_util
        /\ fn_out.sonnet_util = Alone("seven_day_sonnet").sonnet_util
        /\ fn_out.extra_enabled = Alone("extra_usage").extra_enabled
        /\ fn_out.extra_limit = Alone("extra_usage").extra_limit
        /\ fn_out.extra_used = Alone("extra_usage").extra_used

\* five_hour missing and seven_day_sonnet null next to a present seven_day,
\* seven_day_opus and extra_usage.
C11_Witness ==
    /\ pc = "extract_done"
    /\ IsNULL(fn_in.five_hour) /\ cJSON_IsNull(fn_in.seven_day_sonnet)
    /\ fn_out.valid
    /\ fn_out.five_hour_util = -1 /\ fn_out.sonnet_util = -1
    /\ fn_out.seven_day_util = 150 /\ fn_out.opus_util = 40
    /\ fn_out.extra_enabled /\ fn_out.extra_limit = 4250

\* C12: a numeric utilization is stored as sent, whatever its value; above 100
\* the fill is red and exactly as wide as the bar, and the text shows the
\* value itself.
C12_NoClamping ==
    pc = "section_done" /\ cJSON_IsNumber(fn_in.util) =>
        /\ fn_out.stored.util = fn_in.util.v
        /\ fn_in.util.v > 100 =>
              /\ fn_out.drawn.bar = [fill |-> fn_out.drawn.bar_w, color |-> "CLR_RED"]
              /\ fn_out.drawn.pct = ToString(fn_in.util.v) \o "%"
              /\ fn_out.drawn.pct_color = "CLR_RED"

\* What does hold: the same, for values whose fill width fits an int.
C12_NoClampingInRange ==
    pc = "section_done" /\ cJSON_IsNumber(fn_in.util) =>
        /\ fn_out.stored.util = fn_in.util.v
        /\ fn_in.util.v > 100 /\ fn_in.util.v \div 100 < INT_MAX \div fn_out.drawn.bar_w =>
              /\ fn_out.drawn.bar = [fill |-> fn_out.drawn.bar_w, color |-> "CLR_RED"]
              /\ fn_out.drawn.pct = ToString(fn_in.util.v) \o "%"
              /\ fn_out.drawn.pct_color = "CLR_RED"
        /\ fn_out.drawn.bar.fill <= fn_out.drawn.bar_w

\* C13: the icon follows the larger utilization of the windows that are not
\* absent: red from 95, yellow from 80 up to 95, green below; with no window
\* present it is green.
PresentUtils == {u \in {fn_in.five, fn_in.seven} : u # -1}
C18_BodyOnlyWithoutError ==
    pc = "http_done" =>
        /\ fn_out.error_code # 0 => fn_out.body.null /\ fn_out.body_len = 0
        /\ ~fn_out.body.null => fn_out.error_code = 0
        /\ fn_out.body.null => fn_out.body_len = 0

\* The buffer cannot be allocated after the status line has been read.
C18_Witness ==
    /\ pc = "http_done"
    /\ fn_in.fail = "malloc" /\ fn_in.status = 200
    /\ fn_out.error_code = ERROR_NOT_ENOUGH_MEMORY
    /\ fn_out.body.null

\* C19: a start at which config_load fails (it leaves no credentials path) or
\* the first token read fails ends at once with a non-zero exit code: no tray
\* icon, no timer, no message loop, no fetch; and an ended process stays so.
C19_SetupFailureIsFatal ==
    [][ /\ pc = "start" /\ (~g_app'.config.credentials_path
                              \/ ~config_read_access_token(cred, "").ok) =>
            /\ pc' = "exit" /\ exit_code' # 0
            /\ ~g_app'.added /\ ~timer'.armed
            /\ cycles' = <<>> /\ balloons' = 0 /\ last' = NoCycle
        /\ pc = "exit" => UNCHANGED vars ]_vars

\* No config file and no credentials file found.
C19_Witness ==
    /\ pc = "exit" /\ exit_code = 1
    /\ ~g_app.config.credentials_path
    /\ ~g_app.added /\ ~timer.armed /\ cycles = <<>>

\* C20: the text for a reset time d seconds away.
Expected(d) ==
    CASE d <= 0 -> "now"
      [] d \in {1, 30, 59} -> "0m"
      [] d \in {60, 61} -> "1m"
      [] d = 3599 -> "59m"
      [] d = 3600 -> "1h 0m"
      [] d = 3661 -> "1h 1m"
      [] d = 5400 -> "1h 30m"
      [] d = 7200 -> "2h 0m"
      [] d = 86399 -> "23h 59m"
      [] d = 86400 -> "1d 0h"
      [] d = 90000 -> "1d 1h"
      [] d = 172799 -> "1d 23h"
      [] d = 260000 -> "3d 0h"
C20_TimeRemaining == pc = "time_done" => fn_out = Expected(fn_in.d)

\* Exactly 25 hours away.
C20_Witness == pc = "time_done" /\ fn_in.d = 90000 /\ fn_in.now = 1000 /\ fn_out = "1d 1h"

\* C15: at no time is the UI thread inside two calls of do_fetch.
FetchesInProgress == Cardinality({i \in DOMAIN stack : InFetch(stack[i])})
C15_NoOverlap == FetchesInProgress <= 1

\* A timer tick is served while the context menu is open and two more
\* messages wait: the fetch runs to its end before any of them is handled.
C15_Witness ==
    /\ stack = <<"GetMessageW", "TrackPopupMenu", "do_fetch@WM_TIMER">>
    /\ Len(queue) = 2

\* C16: a manual refresh has the timer cancelled while its one fetch runs, and
\* when it returns exactly one cycle has been added and the timer is armed
\* anew with the configured interval and nothing of it elapsed; a timer-driven
\* fetch starts only when a full interval has elapsed.
RefreshReturns == stack # <<>> /\ Top = "do_fetch@IDM_REFRESH" /\ stack' = Pop
TimerFetchStarts == stack' = Append(stack, "do_fetch@WM_TIMER")
C16_RefreshRearms ==
    [][ /\ (stack # <<>> /\ Top = "do_fetch@IDM_REFRESH") => ~timer.armed
        /\ RefreshReturns =>
              /\ Len(cycles') = Len(cycles) + 1
              /\ timer' = [armed |-> TRUE,
                           period |-> g_app.config.poll_interval_sec * 1000]
              /\ elapsed' = 0
        /\ stack' = Append(stack, "do_fetch@IDM_REFRESH") =>
              cycles' = cycles /\ ~timer'.armed
        /\ TimerFetchStarts => timer.armed /\ elapsed = 2 ]_vars

\* A refresh picked from the menu is under way as the third cycle: the timer
\* is cancelled while its fetch runs, and the WM_NULL of the menu waits.
C16_Witness ==
    /\ stack = <<"GetMessageW", "do_fetch@IDM_REFRESH">>
    /\ Len(cycles) = 2
    /\ ~timer.armed
    /\ queue = <<"WM_NULL">>

\* C17: a left click of the tray icon shows the popup with the cached result
\* of that moment and changes nothing else: no fetch cycle (no credentials
\* read, no request), the cached result, the failure flag and the timer as
\* they were.
LeftClickHandled ==
    queue # <<>> /\ Head(queue) = "WM_LBUTTONUP" /\ queue' = Tail(queue)
C17_ClickShowsCached ==
    [][ LeftClickHandled =>
          /\ popup'.shown /\ popup'.data = g_app.usage
          /\ UNCHANGED <<g_app, cred, cycles, balloons, last, prev, timer, elapsed,
                         stack, pc>> ]_vars

\* The popup was opened on a Failed result, a fetch then gave a Valid one, and
\* a second click shows the Valid result while the failure flag stays clear.
C17_Witness ==
    /\ popup.shown /\ popup.data = g_app.usage
    /\ cycles = <<"Failed", "Valid">>
    /\ ~g_app.last_fetch_failed
    /\ timer.armed
    /\ stack = <<"GetMessageW">>

\* C21: when the configuration loads, the poll timer is armed with a period
\* of exactly poll_interval x 1000 milliseconds for every poll_interval of the
\* file that parses to an integer above 0, and with 60 seconds otherwise.
C21_PollPeriod ==
    (pc = "poll_done" /\ fn_out.ok) =>
        LET v == atoi(fn_in.file.poll)
            ms == fn_out.timer.period
        IN  /\ fn_out.timer.armed
            /\ IF fn_in.file.exists /\ fn_in.file.poll # "none" /\ v > 0
               THEN ms \div 1000 = v /\ ms % 1000 = 0
               ELSE ms = DEFAULT_POLL_SEC * 1000

\* The same for the values whose product with 1000 fits an int.
C21_PollPeriodInRange ==
    (pc = "poll_done" /\ fn_out.ok /\ atoi(fn_in.file.poll) <= INT_MAX \div 1000)
        => LET v == atoi(fn_in.file.poll)
               ms == fn_out.timer.period
           IN  IF fn_in.file.exists /\ fn_in.file.poll # "none" /\ v > 0
               THEN ms = v * 1000
               ELSE ms = DEFAULT_POLL_SEC * 1000

\* C22: a fetch cycle of the running controller adds exactly one outcome and
\* leaves the timer as it was, armed with the configured period, whatever the
\* earlier outcomes were; and in every state of the loop, a cycle that finds
\* readable credentials and a correct answer of the server gives a Valid
\* result.
GoodCreds ==
    { f \in CredFiles : LET rd == config_read_access_token(f, "")
                        IN  rd.ok /\ rd.token # "" }
GoodNets == { n \in Nets : n.fail = "none" /\ n.status = 200 /\ n.doc # "html" }
CycleStep == pc = "loop" /\ cycles' # cycles
C23_PopupShowsCurrent ==
    popup.shown =>
        /\ popup.data = g_app.usage
        /\ ~(popup.data.valid /\ ~g_app.usage.valid)

\* C24: a fetch cycle with a Failed outcome leaves the colour of the tray icon
\* as it was, so the icon keeps the colour of the last Valid result.
C24_FailedKeepsIcon ==
    [][ (CycleStep /\ cycles'[Len(cycles')] = "Failed") => g_app'.hIcon = g_app.hIcon ]_vars

\* The same for the one failure that makes no request: no access token.
C24_NoTokenKeepsIcon ==
    [][ (CycleStep /\ cycles'[Len(cycles')] = "Failed" /\ ~last'.http)
           => g_app'.hIcon = g_app.hIcon ]_vars

\* C25: the extra-usage flag of a Valid result is the is_enabled value of the
\* server: TRUE only when the extra_usage object is there with is_enabled
\* true.
C25_ExtraEnabledIsServerFlag ==
    (pc = "extract_done" /\ fn_out.valid) =>
        LET extra == fn_in.extra_usage
            en == cJSON_GetObjectItem(extra, "is_enabled")
        IN  fn_out.extra_enabled
              = (~IsNULL(extra) /\ ~cJSON_IsNull(extra) /\ en = JBool(TRUE))

\* C26: format_subscription_type gives "Pro" for "pro", "Max" for "max",
\* "Free" for "free", "Max <NNN/10>x" for "max_NNN" with a number NNN above 0,
\* "Pro" for an empty type and "Pro" for every other type.
AllDigits(t) == t # "" /\ \A i \in 1..Len(t) : isdigit(SubSeq(t, i, i))
IsMaxN(type) ==
    /\ Len(type) > 4 /\ SubSeq(type, 1, 4) = "max_"
    /\ AllDigits(SubSeq(type, 5, Len(type)))
    /\ atoi(SubSeq(type, 5, Len(type))) > 0
C26_SubscriptionNames ==
    pc = "format_done" =>
        fn_out = CASE fn_in = "pro" -> "Pro"
                   [] fn_in = "max" -> "Max"
                   [] fn_in = "free" -> "Free"
                   [] IsMaxN(fn_in) ->
                        "Max " \o ToString(atoi(SubSeq(fn_in, 5, Len(fn_in))) \div 10) \o "x"
                   [] OTHER -> "Pro"

\* The same without the types that are none of the names above.
C26_KnownNames ==
    (pc = "format_done" /\ (fn_in \in {"", "pro", "max", "free"} \/ IsMaxN(fn_in))) =>
        fn_out = CASE fn_in = "max" -> "Max"
                   [] fn_in = "free" -> "Free"
                   [] IsMaxN(fn_in) ->
                        "Max " \o ToString(atoi(SubSeq(fn_in, 5, Len(fn_in))) \div 10) \o "x"
                   [] OTHER -> "Pro"

\* C27: on every exit path of http_get each handle it acquired is closed
\* exactly once and never before it was acquired, and the buffer is either
\* freed or handed back as the body; on every exit path of api_fetch_usage
\* the handles, the body and the JSON tree are each released exactly once.
Resources == {"hConnect", "hRequest", "buf", "root"}
Count(calls, op, res) ==
    Cardinality({ i \in DOMAIN calls : calls[i] = [op |-> op, res |-> res] })
Balanced(calls, res) ==
    /\ Count(calls, "acquire", res) <= 1
    /\ Count(calls, "release", res) = Count(calls, "acquire", res)
    /\ \A i \in DOMAIN calls :
           calls[i] = release(res) => \E j \in 1..(i - 1) : calls[j] = acquire(res)
C27_ReleasedOnce ==
    pc = "calls_done" =>
        /\ Balanced(fn_out.http, "hConnect") /\ Balanced(fn_out.http, "hRequest")
        /\ Count(fn_out.http, "acquire", "buf") - Count(fn_out.http, "release", "buf")
             = (IF fn_out.resp.body.null THEN 0 ELSE 1)
        /\ \A res \in Resources : Balanced(fn_out.fetch, res)

\* A 200 whose JSON body was read and parsed: all four resources were
\* acquired and released.
C27_Witness ==
    /\ pc = "calls_done"
    /\ \A res \in Resources : Count(fn_out.fetch, "acquire", res) = 1
    /\ Len(fn_out.fetch) = 8

\* The buffer was freed inside http_get after a failed realloc.
C27_WitnessRealloc ==
    /\ pc = "calls_done"
    /\ fn_in.body_fail = "realloc"
    /\ Count(fn_out.http, "release", "buf") = 1

\* C28: at most one popup window exists at any time, and DestroyWindow is
\* called exactly once for each window created: never twice for the same
\* window, also when popup_hide is entered again from the WM_KILLFOCUS that
\* the window gets while it is destroyed.
DestroyCalls(h) == Cardinality({ i \in DOMAIN fn_out.destroys : fn_out.destroys[i] = h })
C28_OnePopupDestroyedOnce ==
    pc \in {"popup", "popup_exit"} =>
        /\ Cardinality(fn_out.windows) <= 1
        /\ \A h \in 1..fn_out.created :
               /\ DestroyCalls(h) <= 1
               /\ (stack = <<>> /\ h \notin fn_out.windows) => DestroyCalls(h) = 1

\* What holds: one window at most, which is the one g_popup names, and
\* popup_hide without a popup changes nothing.
C28_AtMostOnePopup ==
    pc \in {"popup", "popup_exit"} =>
        /\ Cardinality(fn_out.windows) <= 1
        /\ stack = <<>> =>
              fn_out.windows = (IF fn_out.g_popup = 0 THEN {} ELSE {fn_out.g_popup})
        /\ \A h \in 1..fn_out.created : h \notin fn_out.windows => DestroyCalls(h) >= 1

\* C29: when WinHttpQueryDataAvailable or WinHttpReadData fails after the
\* headers were received, http_get gives a non-zero error_code and no body.
BodyReadFails(net) ==
    /\ net.fail = "none"
    /\ \/ net.body_fail = "query" /\ net.at <= Len(Doc(net.doc).chunks) + 1
       \/ net.body_fail = "read" /\ net.at <= Len(Doc(net.doc).chunks)
C29_BodyReadFailureIsError ==
    (pc = "http_done" /\ BodyReadFails(fn_in)) =>
        fn_out.error_code # 0 /\ fn_out.body.null

\* C30: while the cached result is Valid with a window whose utilization is
\* absent (stored as -1), the tooltip of the tray icon does not give that
\* window as a percentage: neither "-1%" nor "0%" stands for it.
Contains(text, part) ==
    \E i \in 1..(Len(text) - Len(part) + 1) : SubSeq(text, i, i + Len(part) - 1) = part
C30_AbsentNotAPercentage ==
    (pc = "loop" /\ g_app.usage.valid) =>
        /\ g_app.usage.five_hour_util = -1 =>
               ~Contains(g_app.szTip, "5h -1%") /\ ~Contains(g_app.szTip, "5h 0%")
        /\ g_app.usage.seven_day_util = -1 =>
               ~Contains(g_app.szTip, "7d -1%") /\ ~Contains(g_app.szTip, "7d 0%")

====
